---- MODULE Spec2Model ----
(***************************************************************************)
(* Model of esphome_mqtt_timescaledb_ingestor/ingestor.py: the MQTT        *)
(* message callback on_mqtt_message, the five hand-off queues, and the     *)
(* database writer thread db_writer_thread with its connection handling    *)
(* (specification Spec); the connection callback on_mqtt_connect and the   *)
(* MQTT session (specification SpecMqtt).                                  *)
(*                                                                         *)
(* Strings are sequences of symbols.  A symbol is a character ("/", "-")   *)
(* or a whole word ("esphome", "status") that none of the modelled         *)
(* operations looks inside, so substring search, suffix tests, split and   *)
(* replace are computed symbol by symbol exactly as Python computes them   *)
(* character by character.  Payload texts are atomic strings; json.loads   *)
(* is the table JsonLoads over the payload texts of the model.             *)
(*                                                                         *)
(* The database is the pair (db, work): db is the committed contents,      *)
(* work is the view of the open transaction.  The time column of every     *)
(* table is left out.  The field msg of a queue item and of a row is the   *)
(* sequence number of the delivered message it derives from; the program   *)
(* has no such field, it stands for the identity of the Python object.     *)
(* msg.payload is a byte string: BadUtf8 is one that is not UTF-8, every   *)
(* other payload of the model is the UTF-8 encoding of the text shown.     *)
(***************************************************************************)
EXTENDS Integers, Sequences, FiniteSets, TLC

\* Number of messages the broker delivers in one run.
MaxMsgs == 2

\* ------------------------------------------------------------------------
\* String operations used by the program (str.__contains__, str.endswith,
\* str.split, str.replace), over sequences of symbols.

Contains(s, sub) ==
    \E i \in 1..(Len(s) - Len(sub) + 1) : SubSeq(s, i, i + Len(sub) - 1) = sub

EndsWith(s, suf) ==
    /\ Len(suf) <= Len(s)
    /\ SubSeq(s, Len(s) - Len(suf) + 1, Len(s)) = suf

RECURSIVE Split(_, _)
Split(s, sep) ==
    IF \A i \in 1..Len(s) : s[i] # sep
    THEN <<s>>
    ELSE LET i == CHOOSE k \in 1..Len(s) :
                      s[k] = sep /\ \A j \in 1..(k - 1) : s[j] # sep
         IN  <<SubSeq(s, 1, i - 1)>> \o Split(SubSeq(s, i + 1, Len(s)), sep)

Replace(s, old, new) == [i \in 1..Len(s) |-> IF s[i] = old THEN new ELSE s[i]]

\* ------------------------------------------------------------------------
\* Payload texts and json.loads.

JSONDecodeError == [jsonError |-> "JSONDecodeError"]

None == "None"

DiscA1   == "{\"name\":\"A\",\"ip\":\"1\"}"
DiscA2   == "{\"name\":\"A\",\"ip\":\"2\"}"
DiscAnon == "{\"ip\":\"3\"}"
EntU1    == "{\"unique_id\":\"u1\",\"device\":{\"identifiers\":[\"A\"]},\"component\":\"light\",\"name\":\"K1\"}"
EntU2    == "{\"unique_id\":\"u2\",\"device\":{\"identifiers\":[\"A\"]},\"component\":\"light\"}"
EntNoComp == "{\"unique_id\":\"u3\",\"device\":{\"identifiers\":[\"A\"]},\"name\":\"K3\"}"
EntShort == "{\"name\":\"Kitchen Light\",\"uniq_id\":\"kitchen_light_abc\",\"dev\":{\"name\":\"esphome-device1\"}}"

BadUtf8 == "\\xff"
UnicodeDecodeError == "UnicodeDecodeError"

\* bytes.decode("utf-8")
Utf8Decode(bytes) == IF bytes = BadUtf8 THEN UnicodeDecodeError ELSE bytes

\* json.loads: a JSON object becomes a function from its keys, a JSON number
\* a value that is no object, and any other text raises JSONDecodeError.
JsonLoads(text) ==
    CASE text = DiscA1   -> [name |-> "A", ip |-> "1"]
      [] text = DiscA2   -> [name |-> "A", ip |-> "2"]
      [] text = DiscAnon -> [ip |-> "3"]
      [] text = EntU1    -> [unique_id |-> "u1",
                             device |-> [identifiers |-> <<"A">>],
                             component |-> "light", name |-> "K1"]
      [] text = EntU2    -> [unique_id |-> "u2",
                             device |-> [identifiers |-> <<"A">>],
                             component |-> "light"]
      [] text = EntNoComp -> [unique_id |-> "u3",
                             device |-> [identifiers |-> <<"A">>], name |-> "K3"]
      [] text = EntShort -> [name |-> "Kitchen Light",
                             uniq_id |-> "kitchen_light_abc",
                             dev |-> [name |-> "esphome-device1"]]
      [] text = "23.5"   -> [jsonNumber |-> "23.5"]
      [] OTHER           -> JSONDecodeError

IsJsonError(v) == "jsonError" \in DOMAIN v
IsDict(v) == "jsonError" \notin DOMAIN v /\ "jsonNumber" \notin DOMAIN v

\* dict.get(key) and dict.get(key, default)
Get(d, key, default) == IF key \in DOMAIN d THEN d[key] ELSE default

\* ------------------------------------------------------------------------
\* The messages the broker delivers: msg.topic and msg.payload.

Topic(segments) ==
    LET RECURSIVE Join(_)
        Join(ss) == IF Len(ss) = 1 THEN ss[1]
                    ELSE ss[1] \o <<"/">> \o Join(Tail(ss))
    IN  Join(segments)

TDiscover    == Topic(<< <<"esphome">>, <<"discover">>, <<"d1">> >>)
TDiscStatus  == Topic(<< <<"esphome">>, <<"discover">>, <<"status">> >>)
THaConfig    == Topic(<< <<"homeassistant">>, <<"light">>, <<"kitchen_light">>, <<"config">> >>)
TStatus      == Topic(<< <<"kitchen">>, <<"status">> >>)
TState       == Topic(<< <<"kitchen">>, <<"switch">>, <<"fan">>, <<"state">> >>)
TStateDash   == Topic(<< <<"d", "-", "1">>, <<"sensor">>, <<"t">>, <<"state">> >>)
TStateDot    == Topic(<< <<"d", ".", "1">>, <<"sensor">>, <<"t">>, <<"state">> >>)
TCommand     == Topic(<< <<"mydevice">>, <<"light">>, <<"bulb">>, <<"command">> >>)
TOther       == Topic(<< <<"some">>, <<"other">>, <<"topic">> >>)

Msg(t, p) == [topic |-> t, payload |-> p]

Messages ==
    { Msg(TDiscover, DiscA1), Msg(TDiscStatus, DiscA2), Msg(TDiscover, DiscAnon),
      Msg(TDiscStatus, "online"),
      Msg(THaConfig, EntU1), Msg(THaConfig, EntU2), Msg(THaConfig, EntNoComp),
      Msg(THaConfig, EntShort),
      Msg(THaConfig, "online"),
      Msg(TStatus, "online"), Msg(TStatus, BadUtf8),
      Msg(TState, "ON"), Msg(TStateDash, "23.5"), Msg(TStateDot, "23.5"),
      Msg(TCommand, "TOGGLE"),
      Msg(TOther, "just plain text") }

QueueNames == {"discovery", "entity", "status", "state", "command"}

\* ------------------------------------------------------------------------
VARIABLES
    queue,      \* discovery_queue, entity_queue, status_queue, state_queue,
                \* command_queue: queue[q] is the FIFO content of queue q
    batch,      \* discovery_batch ... command_batch of db_writer_thread
    conn,       \* the writer's connection: "None" or "open"
    db,         \* committed contents of the database
    work,       \* contents as seen by the writer's open transaction
    pc,         \* position of db_writer_thread
    stop_event, \* threading.Event stop_event
    nmsgs,      \* number of messages delivered so far
    delivered,  \* history: delivered[i] is message i and what it put on a queue
    drained,    \* history: the batches as they were after the last drain
    provisioned,   \* history: setup_database_tables has completed on conn
    drain_left,    \* history: items of the depth a queue had when its drain
                   \* loop first tested it that the loop has yet to remove;
                   \* -1 before the first test
    ensured,       \* history: the tables whose CREATE TABLE / create_hypertable
                   \* statements the tick has executed
    main_pc,       \* position of start()
    session,       \* the MQTT session: "down", "connected" or "refused"
    subscriptions, \* the topic filters the session is subscribed to
    connects       \* number of established connections reported so far

vars == <<queue, batch, conn, db, work, pc, stop_event, nmsgs, delivered, drained,
          provisioned, drain_left, ensured, main_pc, session, subscriptions, connects>>

\* ------------------------------------------------------------------------
\* on_mqtt_message: the queue a message is put on and the item put there.

NoPut == [q |-> "none"]
Put(q, v) == [q |-> q, v |-> v]

RouteOther(topic, payload_str) ==
    IF EndsWith(topic, <<"/", "status">>) THEN Put("status", <<topic, payload_str>>)
    ELSE IF EndsWith(topic, <<"/", "state">>) THEN Put("state", <<topic, payload_str>>)
    ELSE IF EndsWith(topic, <<"/", "command">>) THEN Put("command", <<topic, payload_str>>)
    ELSE NoPut

RouteEntity(payload_str) ==
    LET entity_data == JsonLoads(payload_str)
    IN  IF IsJsonError(entity_data) THEN NoPut          \* except json.JSONDecodeError
        ELSE IF ~IsDict(entity_data) THEN NoPut         \* TypeError, except Exception
        ELSE IF /\ "device" \in DOMAIN entity_data
                /\ "identifiers" \in DOMAIN entity_data.device
             THEN Put("entity", entity_data)
             ELSE NoPut

\* RouteDiscovery without the except json.JSONDecodeError clause's discard:
\* the text that failed to parse is put on the queue as it is.
RouteDiscoveryKeepsText(payload_str) ==
    LET d == JsonLoads(payload_str)
    IN  IF IsJsonError(d) THEN Put("discovery", [text |-> payload_str])
        ELSE Put("discovery", d)

RouteDiscovery(payload_str) ==
    LET d == JsonLoads(payload_str)
    IN  IF IsJsonError(d) THEN NoPut ELSE Put("discovery", d)

\* Route with the three suffix tests ahead of the two JSON branches.
RouteSuffixFirst(m) ==
    LET topic == m.topic
        payload_str == Utf8Decode(m.payload)
    IN  IF payload_str = UnicodeDecodeError THEN NoPut
        ELSE IF RouteOther(topic, payload_str) # NoPut
             THEN RouteOther(topic, payload_str)
        ELSE IF Contains(topic, <<"esphome", "/", "discover">>)
             THEN RouteDiscovery(payload_str)
        ELSE IF Contains(topic, <<"homeassistant">>) /\ EndsWith(topic, <<"/", "config">>)
             THEN RouteEntity(payload_str)
        ELSE NoPut

Route(m) ==
    LET topic == m.topic
        payload_str == Utf8Decode(m.payload)
    IN  IF payload_str = UnicodeDecodeError THEN NoPut  \* except Exception
        ELSE IF Contains(topic, <<"esphome", "/", "discover">>)
             THEN RouteDiscovery(payload_str)
        ELSE IF Contains(topic, <<"homeassistant">>) /\ EndsWith(topic, <<"/", "config">>)
             THEN RouteEntity(payload_str)
        ELSE RouteOther(topic, payload_str)

\* ------------------------------------------------------------------------
\* The database.

EmptyDb ==
    [fixed |-> FALSE,           \* the four fixed tables exist
     discovery_data |-> {},     \* rows, device_name is the primary key
     entity |-> {},             \* rows, unique_id is the primary key
     device_status |-> <<>>,    \* rows in insertion order
     command |-> <<>>,          \* rows in insertion order
     hypertables |-> {},        \* names of the per-device tables that exist
     state_rows |-> <<>>]       \* rows of the per-device tables, each with its table

Init ==
    /\ queue = [q \in QueueNames |-> <<>>]
    /\ batch = [q \in QueueNames |-> <<>>]
    /\ conn = None
    /\ db = EmptyDb
    /\ work = EmptyDb
    /\ pc = "loop"
    /\ stop_event = FALSE
    /\ nmsgs = 0
    /\ delivered = <<>>
    /\ drained = [q \in QueueNames |-> <<>>]
    /\ provisioned = FALSE
    /\ drain_left = -1
    /\ ensured = {}
    /\ main_pc = "running"
    /\ session = "down"
    /\ subscriptions = {}
    /\ connects = 0

\* Queue(): maxsize is 0, which Queue takes as no limit.
maxsize == 0

\* Queue.full() of a queue with one free slot only.
fullAtOne(q) == Len(queue[q]) >= 1

\* Queue.full(): put(item) waits while it holds.
full(q) == maxsize > 0 /\ Len(queue[q]) >= maxsize

\* on_mqtt_message(client, userdata, msg)
on_mqtt_message(m) ==
    LET r == Route(m)
        n == nmsgs + 1
    IN  /\ IF r.q = "none" THEN TRUE ELSE ~full(r.q)
        /\ nmsgs' = n
        /\ delivered' = Append(delivered, [msg |-> m, put |-> r])
        /\ queue' = IF r.q = "none" THEN queue
                    ELSE [queue EXCEPT ![r.q] = Append(@, [msg |-> n, v |-> r.v])]
        /\ UNCHANGED <<batch, conn, db, work, pc, stop_event, drained,
                       provisioned, drain_left, ensured, main_pc, session, subscriptions, connects>>

Deliver ==
    /\ nmsgs < MaxMsgs
    /\ \E m \in Messages : on_mqtt_message(m)

\* ------------------------------------------------------------------------
\* db_writer_thread.

\* while not stop_event.is_set(): ... conn = psycopg2.connect(**db_config)
Connect ==
    /\ pc = "loop" /\ ~stop_event /\ conn = None
    /\ conn' = "open"
    /\ work' = db
    /\ provisioned' = FALSE
    /\ pc' = "setup"
    /\ UNCHANGED <<queue, batch, db, stop_event, nmsgs, delivered, drained,
                   drain_left, ensured, main_pc, session, subscriptions, connects>>

\* The connection of the previous tick is still there: straight to the drain.
KeepConnection ==
    /\ pc = "loop" /\ ~stop_event /\ conn # None
    /\ pc' = "drain_discovery"
    /\ UNCHANGED <<queue, batch, conn, db, work, stop_event, nmsgs, delivered, drained,
                   provisioned, drain_left, ensured, main_pc, session, subscriptions, connects>>

\* setup_database_tables(conn): four CREATE TABLE IF NOT EXISTS, then commit
setup_database_tables ==
    /\ pc = "setup"
    /\ work' = [work EXCEPT !.fixed = TRUE]
    /\ db' = work'
    /\ provisioned' = TRUE
    /\ pc' = "drain_discovery"
    /\ UNCHANGED <<queue, batch, conn, stop_event, nmsgs, delivered, drained,
                   drain_left, ensured, main_pc, session, subscriptions, connects>>

DrainOrder == <<"discovery", "entity", "status", "state", "command">>

DrainPc(i) == IF i = 1 THEN "drain_discovery"
              ELSE IF i = 2 THEN "drain_entity"
              ELSE IF i = 3 THEN "drain_status"
              ELSE IF i = 4 THEN "drain_state"
              ELSE IF i = 5 THEN "drain_command"
              ELSE "write_discovery"

\* while not q.empty(): b.append(q.get_nowait())   -- one iteration
DrainGet(i) ==
    LET q == DrainOrder[i]
    IN  /\ pc = DrainPc(i)
        /\ queue[q] # <<>>
        /\ batch' = [batch EXCEPT ![q] = Append(@, Head(queue[q]))]
        /\ queue' = [queue EXCEPT ![q] = Tail(@)]
        /\ drain_left' = IF drain_left = -1 THEN Len(queue[q]) - 1
                         ELSE IF drain_left = 0 THEN 0
                         ELSE drain_left - 1
        /\ UNCHANGED <<conn, db, work, pc, stop_event, nmsgs, delivered, drained,
                       provisioned, ensured, main_pc, session, subscriptions, connects>>

\* q.empty() is true: the loop over queue q ends
DrainEnd(i) ==
    LET q == DrainOrder[i]
    IN  /\ pc = DrainPc(i)
        /\ queue[q] = <<>>
        /\ pc' = DrainPc(i + 1)
        /\ drain_left' = -1
        /\ drained' = IF i = Len(DrainOrder) THEN batch ELSE drained
        /\ UNCHANGED <<queue, batch, conn, db, work, stop_event, nmsgs, delivered,
                       provisioned, ensured, main_pc, session, subscriptions, connects>>

Drain == \E i \in 1..Len(DrainOrder) : DrainGet(i) \/ DrainEnd(i)

\* The row tuples the list comprehensions build.
DiscoveryRaises(d) == ~IsDict(d) \/ "name" \notin DOMAIN d

DiscoveryRow(it) ==
    LET d == it.v
    IN  [device_name |-> d["name"], ip_address |-> Get(d, "ip", None),
         mac_address |-> Get(d, "mac", None), version |-> Get(d, "version", None),
         platform |-> Get(d, "platform", None), board |-> Get(d, "board", None),
         network |-> Get(d, "network", None), raw_payload |-> d, msg |-> it.msg]

EntityRaises(e) ==
    \/ "unique_id" \notin DOMAIN e
    \/ Len(e["device"]["identifiers"]) = 0
    \/ "component" \notin DOMAIN e

EntityRow(it) ==
    LET e == it.v
    IN  [unique_id |-> e["unique_id"], device_name |-> e["device"]["identifiers"][1],
         component_type |-> e["component"], name |-> Get(e, "name", "N/A"),
         state_topic |-> Get(e, "state_topic", None),
         command_topic |-> Get(e, "command_topic", None),
         raw_payload |-> e, msg |-> it.msg]

\* StatusRow taking the last topic segment for the device name.
StatusRowLastSegment(it) ==
    LET topic == it.v[1]
        payload == it.v[2]
        seg == Split(topic, "/")
    IN  [device_name |-> seg[Len(seg)], status |-> payload,
         raw_payload |-> [topic |-> topic, payload |-> payload], msg |-> it.msg]

StatusRow(it) ==
    LET topic == it.v[1]
        payload == it.v[2]
    IN  [device_name |-> Split(topic, "/")[1], status |-> payload,
         raw_payload |-> [topic |-> topic, payload |-> payload], msg |-> it.msg]

TableName(topic) ==
    LET device_name == Split(topic, "/")[1]
    IN  <<"esphome_">> \o Replace(device_name, "-", "_")

StateRow(it) ==
    LET topic == it.v[1]
        payload == it.v[2]
    IN  [table |-> TableName(topic), topic |-> topic, value |-> payload,
         raw_payload |-> [topic |-> topic, payload |-> payload], msg |-> it.msg]

\* [row(x) for x in batch], one definition per batch
DiscoveryRows(b) == [i \in 1..Len(b) |-> DiscoveryRow(b[i])]
EntityRows(b) == [i \in 1..Len(b) |-> EntityRow(b[i])]
StatusRows(b) == [i \in 1..Len(b) |-> StatusRow(b[i])]
StateRows(b) == [i \in 1..Len(b) |-> StateRow(b[i])]

\* INSERT ... VALUES rows ON CONFLICT (key) DO UPDATE SET <every other column>:
\* each proposed row replaces the row of its key.  The database rejects the
\* statement when two proposed rows have the same key.
DuplicateKeys(rows, key) ==
    \E i, j \in 1..Len(rows) : i < j /\ rows[i][key] = rows[j][key]

Upsert(table, rows, key) ==
    LET new == {rows[i] : i \in 1..Len(rows)}
    IN  {r \in table : \A n \in new : n[key] # r[key]} \cup new

\* A name the database accepts as an unquoted table identifier.
Punctuation == {"-", ".", "/", " "}
ValidIdentifier(name) == \A i \in 1..Len(name) : name[i] \notin Punctuation

\* The statement at the writer's position raises a Python exception before it
\* reaches the database.
PythonRaises ==
    \/ pc = "write_discovery" /\ \E i \in 1..Len(batch["discovery"]) :
                                     DiscoveryRaises(batch["discovery"][i].v)
    \/ pc = "write_entity" /\ \E i \in 1..Len(batch["entity"]) :
                                     EntityRaises(batch["entity"][i].v)

\* The statement at the writer's position is one the database always rejects.
DbRejects ==
    \/ pc = "write_discovery"
         /\ (~work.fixed \/ DuplicateKeys(DiscoveryRows(batch["discovery"]), "device_name"))
    \/ pc = "write_entity"
         /\ (~work.fixed \/ DuplicateKeys(EntityRows(batch["entity"]), "unique_id"))
    \/ pc = "write_status" /\ ~work.fixed
    \/ pc = "write_state"
         /\ \E i \in 1..Len(batch["state"]) : ~ValidIdentifier(StateRow(batch["state"][i]).table)

\* The writer is at a statement that talks to the database.
AtDbStatement ==
    \/ pc \in {"setup", "commit"}
    \/ pc = "write_discovery" /\ batch["discovery"] # <<>> /\ ~PythonRaises
    \/ pc = "write_entity" /\ batch["entity"] # <<>> /\ ~PythonRaises
    \/ pc = "write_status" /\ batch["status"] # <<>>
    \/ pc = "write_state" /\ batch["state"] # <<>>

\* if discovery_batch: execute_values(...); discovery_batch.clear()
WriteDiscovery ==
    /\ pc = "write_discovery"
    /\ IF batch["discovery"] = <<>>
       THEN UNCHANGED <<work, batch>>
       ELSE /\ ~PythonRaises /\ ~DbRejects
            /\ work' = [work EXCEPT !.discovery_data =
                          Upsert(@, DiscoveryRows(batch["discovery"]), "device_name")]
            /\ batch' = [batch EXCEPT !["discovery"] = <<>>]
    /\ pc' = "write_entity"
    /\ UNCHANGED <<queue, conn, db, stop_event, nmsgs, delivered, drained,
                   provisioned, drain_left, ensured, main_pc, session, subscriptions, connects>>

\* if entity_batch: execute_values(...); entity_batch.clear()
WriteEntity ==
    /\ pc = "write_entity"
    /\ IF batch["entity"] = <<>>
       THEN UNCHANGED <<work, batch>>
       ELSE /\ ~PythonRaises /\ ~DbRejects
            /\ work' = [work EXCEPT !.entity =
                          Upsert(@, EntityRows(batch["entity"]), "unique_id")]
            /\ batch' = [batch EXCEPT !["entity"] = <<>>]
    /\ pc' = "write_status"
    /\ UNCHANGED <<queue, conn, db, stop_event, nmsgs, delivered, drained,
                   provisioned, drain_left, ensured, main_pc, session, subscriptions, connects>>

\* WriteStatus without status_batch.clear()
WriteStatusNoClear ==
    /\ pc = "write_status"
    /\ IF batch["status"] = <<>>
       THEN UNCHANGED work
       ELSE /\ ~DbRejects
            /\ work' = [work EXCEPT !.device_status =
                          @ \o StatusRows(batch["status"])]
    /\ pc' = "write_state"
    /\ UNCHANGED <<queue, batch, conn, db, stop_event, nmsgs, delivered, drained,
                   provisioned, drain_left, ensured, main_pc, session, subscriptions, connects>>

\* if status_batch: execute_values(...); status_batch.clear()
WriteStatus ==
    /\ pc = "write_status"
    /\ IF batch["status"] = <<>>
       THEN UNCHANGED <<work, batch>>
       ELSE /\ ~DbRejects
            /\ work' = [work EXCEPT !.device_status =
                          @ \o StatusRows(batch["status"])]
            /\ batch' = [batch EXCEPT !["status"] = <<>>]
    /\ pc' = "write_state"
    /\ UNCHANGED <<queue, conn, db, stop_event, nmsgs, delivered, drained,
                   provisioned, drain_left, ensured, main_pc, session, subscriptions, connects>>

\* if state_batch: group by table; per table CREATE TABLE IF NOT EXISTS,
\* create_hypertable(if_not_exists), execute_values; state_batch.clear()
WriteState ==
    /\ pc = "write_state"
    /\ IF batch["state"] = <<>>
       THEN UNCHANGED <<work, batch, ensured>>
       ELSE LET rows == StateRows(batch["state"])
                states_by_table == {rows[i].table : i \in 1..Len(rows)}
            IN  /\ ~DbRejects
                /\ ensured' = states_by_table
                /\ work' = [work EXCEPT
                              !.hypertables = @ \cup states_by_table,
                              !.state_rows = @ \o rows]
                /\ batch' = [batch EXCEPT !["state"] = <<>>]
    /\ pc' = "commit"
    /\ UNCHANGED <<queue, conn, db, stop_event, nmsgs, delivered, drained,
                   provisioned, drain_left, main_pc, session, subscriptions, connects>>

\* conn.commit()
Commit ==
    /\ pc = "commit"
    /\ db' = work
    /\ ensured' = {}
    /\ pc' = "sleep"
    /\ UNCHANGED <<queue, batch, conn, work, stop_event, nmsgs, delivered, drained,
                   provisioned, drain_left, main_pc, session, subscriptions, connects>>

\* time.sleep(1.0) after a tick, time.sleep(5) in the two handlers
Sleep ==
    /\ pc \in {"sleep", "cooldown"}
    /\ pc' = "loop"
    /\ UNCHANGED <<queue, batch, conn, db, work, stop_event, nmsgs, delivered, drained,
                   provisioned, drain_left, ensured, main_pc, session, subscriptions, connects>>

\* The psycopg2.Error clause that only sleeps, as the Exception clause does.
DatabaseErrorKeepsConnection ==
    /\ \/ pc = "loop" /\ ~stop_event /\ conn = None
       \/ AtDbStatement
    /\ pc' = "cooldown"
    /\ UNCHANGED <<queue, batch, conn, db, work, stop_event, nmsgs, delivered, drained,
                   provisioned, drain_left, ensured, main_pc, session, subscriptions, connects>>

\* except psycopg2.Error: if conn: conn.close(); conn = None; time.sleep(5)
\* Raised by connect, or by a statement: the database is unreachable, or it
\* rejects the statement.  Closing the connection discards the transaction.
DatabaseError ==
    /\ \/ pc = "loop" /\ ~stop_event /\ conn = None
       \/ AtDbStatement
    /\ conn' = None
    /\ work' = db
    /\ provisioned' = FALSE
    /\ ensured' = {}
    /\ pc' = "cooldown"
    /\ UNCHANGED <<queue, batch, db, stop_event, nmsgs, delivered, drained,
                   drain_left, main_pc, session, subscriptions, connects>>

\* db_writer_thread without the except Exception clause: the exception ends
\* the thread.
UnexpectedErrorEndsThread ==
    /\ PythonRaises
    /\ pc' = "done"
    /\ UNCHANGED <<queue, batch, conn, db, work, stop_event, nmsgs, delivered, drained,
                   provisioned, drain_left, ensured, main_pc, session, subscriptions, connects>>

\* except Exception: time.sleep(5)
UnexpectedError ==
    /\ PythonRaises
    /\ pc' = "cooldown"
    /\ UNCHANGED <<queue, batch, conn, db, work, stop_event, nmsgs, delivered, drained,
                   provisioned, drain_left, ensured, main_pc, session, subscriptions, connects>>

\* WriterExit without the conn.close() after the loop.
WriterExitLeavesConnection ==
    /\ pc = "loop" /\ stop_event
    /\ pc' = "done"
    /\ UNCHANGED <<queue, batch, conn, db, work, stop_event, nmsgs, delivered, drained,
                   provisioned, drain_left, ensured, main_pc, session, subscriptions, connects>>

\* The loop condition fails: if conn: conn.close()
WriterExit ==
    /\ pc = "loop" /\ stop_event
    /\ conn' = None
    /\ work' = db
    /\ provisioned' = FALSE
    /\ pc' = "done"
    /\ UNCHANGED <<queue, batch, db, stop_event, nmsgs, delivered, drained,
                   drain_left, ensured, main_pc, session, subscriptions, connects>>

\* start(): the wait loop ends (KeyboardInterrupt or an exception);
\* finally: stop_event.set()
SetStop ==
    /\ main_pc = "running"
    /\ ~stop_event
    /\ stop_event' = TRUE
    /\ main_pc' = "joining"
    /\ UNCHANGED <<queue, batch, conn, db, work, pc, nmsgs, delivered, drained,
                   provisioned, drain_left, ensured, session, subscriptions, connects>>

\* start(): finally: writer.join() returns once db_writer_thread has ended
Join ==
    /\ main_pc = "joining"
    /\ pc = "done"
    /\ main_pc' = "finished"
    /\ UNCHANGED <<queue, batch, conn, db, work, pc, stop_event, nmsgs, delivered, drained,
                   provisioned, drain_left, ensured, session, subscriptions, connects>>

\* ------------------------------------------------------------------------
\* The MQTT session.  It shares no state with db_writer_thread: its events
\* are the connection reports, the loss of the connection and the messages
\* the broker sends for the subscriptions it holds.

MaxConnects == 2

\* The topic filters on_mqtt_connect subscribes to.
Filters ==
    { Topic(<< <<"homeassistant">>, <<"#">> >>),
      Topic(<< <<"esphome">>, <<"discover">>, <<"#">> >>),
      Topic(<< <<"+">>, <<"status">> >>),
      Topic(<< <<"+">>, <<"+">>, <<"+">>, <<"state">> >>),
      Topic(<< <<"+">>, <<"+">>, <<"+">>, <<"command">> >>) }

\* The return codes of a connection report: 0 accepted, 5 not authorised.
ReturnCodes == {0, 5}

\* The broker's filter matching: + is one level, # the remaining levels.
RECURSIVE MatchLevels(_, _)
MatchLevels(f, t) ==
    IF f = <<>> THEN t = <<>>
    ELSE IF f[1] = <<"#">> THEN TRUE
    ELSE IF t = <<>> THEN FALSE
    ELSE IF f[1] = <<"+">> \/ f[1] = t[1] THEN MatchLevels(Tail(f), Tail(t))
    ELSE FALSE

Matches(filter, topic) == MatchLevels(Split(filter, "/"), Split(topic, "/"))

\* on_mqtt_connect that subscribes on the first connection only.
on_mqtt_connectFirstOnly(rc) ==
    /\ session = "down"
    /\ IF rc = 0
       THEN /\ connects < MaxConnects
            /\ connects' = connects + 1
            /\ session' = "connected"
            /\ subscriptions' = IF connects = 0 THEN subscriptions \cup Filters
                                ELSE subscriptions
       ELSE /\ session' = "refused"
            /\ UNCHANGED <<subscriptions, connects>>
    /\ UNCHANGED <<queue, batch, conn, db, work, pc, stop_event, nmsgs, delivered, drained,
                   provisioned, drain_left, ensured, main_pc>>

\* on_mqtt_connect(client, userdata, flags, rc)
on_mqtt_connect(rc) ==
    /\ session = "down"
    /\ IF rc = 0
       THEN /\ connects < MaxConnects
            /\ connects' = connects + 1
            /\ session' = "connected"
            /\ subscriptions' = subscriptions \cup Filters
       ELSE /\ session' = "refused"
            /\ UNCHANGED <<subscriptions, connects>>
    /\ UNCHANGED <<queue, batch, conn, db, work, pc, stop_event, nmsgs, delivered, drained,
                   provisioned, drain_left, ensured, main_pc>>

ConnectReport == \E rc \in ReturnCodes : on_mqtt_connect(rc)

\* The connection is lost or was refused; the client of loop_start() tries
\* again.  A client made by mqtt.Client(client_id=...) has a clean session:
\* the broker keeps none of its subscriptions.
SessionLost ==
    /\ session \in {"connected", "refused"}
    /\ session' = "down"
    /\ subscriptions' = {}
    /\ UNCHANGED <<queue, batch, conn, db, work, pc, stop_event, nmsgs, delivered, drained,
                   provisioned, drain_left, ensured, main_pc, connects>>

\* The broker sends a message that matches a subscription of the session.
BrokerDeliver ==
    /\ session = "connected"
    /\ nmsgs < MaxMsgs
    /\ \E m \in Messages :
          /\ \E f \in subscriptions : Matches(f, m.topic)
          /\ on_mqtt_message(m)

NextMqtt ==
    \/ ConnectReport
    \/ SessionLost
    \/ BrokerDeliver

SpecMqtt == Init /\ [][NextMqtt]_vars

Next ==
    \/ Deliver
    \/ Connect
    \/ KeepConnection
    \/ setup_database_tables
    \/ Drain
    \/ WriteDiscovery
    \/ WriteEntity
    \/ WriteStatus
    \/ WriteState
    \/ Commit
    \/ Sleep
    \/ DatabaseError
    \/ UnexpectedError
    \/ WriterExit
    \/ SetStop
    \/ Join

Spec == Init /\ [][Next]_vars

\* ------------------------------------------------------------------------
\* The program while the database stays reachable and nobody stops it:
\* psycopg2.Error is raised only by a statement the database rejects, and
\* start() stays in its wait loop.

\* except psycopg2.Error, entered from a statement the database rejects
StatementRejected == AtDbStatement /\ DbRejects /\ DatabaseError

\* The steps of db_writer_thread.
WriterUp ==
    \/ Connect
    \/ KeepConnection
    \/ setup_database_tables
    \/ Drain
    \/ WriteDiscovery
    \/ WriteEntity
    \/ WriteStatus
    \/ WriteState
    \/ Commit
    \/ Sleep
    \/ StatementRejected
    \/ UnexpectedError

NextUp ==
    \/ Deliver
    \/ WriterUp

\* The writer is a thread of its own: it is scheduled again and again, its
\* sleeps end and its statements return or raise.
SpecUp == Init /\ [][NextUp]_vars /\ WF_vars(WriterUp)

\* ------------------------------------------------------------------------
\* Vocabulary of the properties.

Ids(seq) == {seq[k].msg : k \in 1..Len(seq)}

WasPut(i) == i \in 1..Len(delivered) /\ delivered[i].put.q # "none"
PutOn(i, q) == i \in 1..Len(delivered) /\ delivered[i].put.q = q

InQueue(i) == \E q \in QueueNames : PutOn(i, q) /\ i \in Ids(queue[q])
InBatch(i) == \E q \in QueueNames : PutOn(i, q) /\ i \in Ids(batch[q])

\* The key under which message i is upserted.
KeyOf(i) ==
    IF PutOn(i, "discovery") THEN Get(delivered[i].put.v, "name", None)
    ELSE Get(delivered[i].put.v, "unique_id", None)

\* Message i is in the contents d of the database: as a row of its own in an
\* insert-only table, as the row of its key (its own or a later message's)
\* in an upsert table.
StoredIn(d, i) ==
    \/ PutOn(i, "discovery") /\ \E r \in d.discovery_data :
           r.device_name = KeyOf(i) /\ r.msg >= i
    \/ PutOn(i, "entity") /\ \E r \in d.entity :
           r.unique_id = KeyOf(i) /\ r.msg >= i
    \/ PutOn(i, "status") /\ i \in Ids(d.device_status)
    \/ PutOn(i, "state") /\ i \in Ids(d.state_rows)
    \/ PutOn(i, "command") /\ i \in Ids(d.command)

Committed(i) == StoredIn(db, i)

\* Written in the transaction that is open, not yet committed.
InFlight(i) == conn # None /\ StoredIn(work, i)

FlushPcs == {"write_discovery", "write_entity", "write_status", "write_state", "commit"}

\* ------------------------------------------------------------------------
\* C1: a tick of db_writer_thread in which a bulk write, a device-table
\* provisioning step or the commit fails leaves each of the five batches
\* exactly as it was after that tick's drain.
C1_FailedTickKeepsBatches ==
    [][(pc \in FlushPcs /\ pc' = "cooldown") => batch' = drained]_vars

\* C2: every item on_mqtt_message put on a queue is in that queue, in the
\* batch of that queue, or a committed row of the database.  An item written
\* in the transaction that is still open is counted as accounted for, so the
\* property fails only when an item is gone for good.
C2_NoItemDropped ==
    \A i \in 1..Len(delivered) :
        WasPut(i) => InQueue(i) \/ InBatch(i) \/ Committed(i) \/ InFlight(i)

\* The writer has dealt with message i: it is on no queue and in no batch,
\* and no open transaction holds it uncommitted.
Flushed(i) ==
    /\ WasPut(i) /\ ~InQueue(i) /\ ~InBatch(i)
    /\ ~(conn # None /\ StoredIn(work, i) /\ ~StoredIn(db, i))

Max(S) == CHOOSE x \in S : \A y \in S : y <= x

\* The last flushed message put on queue q with the key of message i.
LastFlushed(q, i) ==
    Max({j \in 1..Len(delivered) : PutOn(j, q) /\ Flushed(j) /\ KeyOf(j) = KeyOf(i)})

\* C3: a message on a topic ending in /command is put on the command queue
\* with its payload unchanged, and once a tick that drained it has committed
\* the command table holds exactly one row for it (device_id the first topic
\* segment, component_id the third, command the payload) and the command
\* batch no longer holds it.
C3_CommandPersisted ==
    /\ \A i \in 1..Len(delivered) :
          LET m == delivered[i].msg
          IN  (EndsWith(m.topic, <<"/", "command">>) /\ PutOn(i, "command"))
                 => delivered[i].put.v = <<m.topic, m.payload>>
    /\ pc = "sleep" =>
          \A k \in 1..Len(drained["command"]) :
              LET it == drained["command"][k]
                  seg == Split(it.v[1], "/")
              IN  /\ Cardinality({j \in 1..Len(db.command) :
                          /\ db.command[j].msg = it.msg
                          /\ db.command[j].device_id = seg[1]
                          /\ db.command[j].component_id = seg[3]
                          /\ db.command[j].command = it.v[2]}) = 1
                  /\ it.msg \notin Ids(batch["command"])

\* C4: once Discovery messages (EntityMetadata messages) have been flushed,
\* discovery_data holds exactly one row per device name (entity one row per
\* unique_id), and that row carries the fields of the last of them for the key.
C4_UpsertLastWriterWins ==
    \A i \in 1..Len(delivered) :
        /\ (PutOn(i, "discovery") /\ Flushed(i)) =>
              LET d == delivered[LastFlushed("discovery", i)].put.v
                  rows == {r \in db.discovery_data : r.device_name = KeyOf(i)}
              IN  /\ Cardinality(rows) = 1
                  /\ \A r \in rows : /\ r.raw_payload = d
                                     /\ r.ip_address = Get(d, "ip", None)
        /\ (PutOn(i, "entity") /\ Flushed(i)) =>
              LET e == delivered[LastFlushed("entity", i)].put.v
                  rows == {r \in db.entity : r.unique_id = KeyOf(i)}
              IN  /\ Cardinality(rows) = 1
                  /\ \A r \in rows : /\ r.raw_payload = e
                                     /\ r.name = Get(e, "name", "N/A")

\* C5: no delivered status or state message has more than one committed row
\* in device_status or in the per-device state tables, whatever ticks failed.
C5_NoDuplicateRows ==
    \A i \in 1..MaxMsgs :
        /\ Cardinality({k \in 1..Len(db.device_status) : db.device_status[k].msg = i}) <= 1
        /\ Cardinality({k \in 1..Len(db.state_rows) : db.state_rows[k].msg = i}) <= 1

\* A status message was in the batch of a tick that failed and was committed
\* by a later tick.  Message 1 is a status message and message 2 a Discovery
\* message that a failed tick wrote and lost: that tick drained message 2, so
\* message 1, delivered earlier, was in the status batch of that tick or had
\* been committed before it; it was in the batch of the tick that has just
\* committed, so it was committed after the failed tick.
C5_Witness ==
    /\ pc = "sleep"
    /\ PutOn(1, "status") /\ PutOn(2, "discovery")
    /\ 1 \in Ids(drained["status"])
    /\ 1 \in Ids(db.device_status)
    /\ ~InQueue(2) /\ ~InBatch(2) /\ ~Committed(2)

\* The value the stored row is to carry for a state payload: 1.0 for "on" and
\* 0.0 for "off" in any letter case, the number for numeric text, else null.
CoercedValue(payload) ==
    IF payload \in {"on", "ON", "On", "oN"} THEN "1.0"
    ELSE IF payload \in {"off", "OFF", "Off"} THEN "0.0"
    ELSE IF payload \in {"23.5"} THEN "23.5"
    ELSE None

\* C6: every stored state row carries the coerced value of its payload, and
\* the raw text; "kitchen/switch/fan/state" with payload "ON" is stored in
\* esphome_kitchen with value 1.0.
C6_StateValueCoerced ==
    \A k \in 1..Len(db.state_rows) :
        LET r == db.state_rows[k]
        IN  /\ r.value = CoercedValue(r.raw_payload.payload)
            /\ (r.topic = TState /\ r.raw_payload.payload = "ON")
                  => (r.table = <<"esphome_", "kitchen">> /\ r.value = "1.0")

\* ------------------------------------------------------------------------
\* Steps of on_mqtt_message, and the routing rules in their priority order.

DeliverStep == nmsgs' = nmsgs + 1
NewMsg == delivered'[nmsgs'].msg

IsDiscoveryTopic(topic) == Contains(topic, <<"esphome", "/", "discover">>)
IsConfigTopic(topic) ==
    Contains(topic, <<"homeassistant">>) /\ EndsWith(topic, <<"/", "config">>)
IsStatusTopic(topic) == EndsWith(topic, <<"/", "status">>)
IsStateTopic(topic) == EndsWith(topic, <<"/", "state">>)
IsCommandTopic(topic) == EndsWith(topic, <<"/", "command">>)

FirstMatchingRule(topic) ==
    IF IsDiscoveryTopic(topic) THEN "discovery"
    ELSE IF IsConfigTopic(topic) THEN "entity"
    ELSE IF IsStatusTopic(topic) THEN "status"
    ELSE IF IsStateTopic(topic) THEN "state"
    ELSE IF IsCommandTopic(topic) THEN "command"
    ELSE "none"

\* Queue q gained exactly one item at its end.
GainedOne(q) ==
    /\ Len(queue'[q]) = Len(queue[q]) + 1
    /\ SubSeq(queue'[q], 1, Len(queue[q])) = queue[q]

\* C7: on_mqtt_message puts a message on at most one queue, the queue of the
\* first rule its topic matches in the order discovery prefix, config suffix,
\* status, state, command suffix; a topic matching no rule changes no queue.
C7_RoutingPriority ==
    [][DeliverStep =>
          \A q \in QueueNames :
              IF q = FirstMatchingRule(NewMsg.topic)
              THEN queue'[q] = queue[q] \/ GainedOne(q)
              ELSE queue'[q] = queue[q]]_vars

\* A Discovery message on a topic that also ends in /status went to the
\* discovery queue, and a message on a topic matching no rule went nowhere.
C7_Witness ==
    /\ Len(delivered) = 2
    /\ delivered[1].msg = Msg(TDiscStatus, DiscA2)
    /\ delivered[2].msg.topic = TOther
    /\ Ids(queue["discovery"]) = {1}
    /\ \A q \in QueueNames \ {"discovery"} : queue[q] = <<>>

\* C8: a payload that is not valid JSON on a discovery topic or on a
\* home-automation config topic is discarded: the step completes and leaves
\* the five queues, and everything else but the delivery count, unchanged.
C8_MalformedJsonDiscarded ==
    [][(/\ DeliverStep
        /\ IsDiscoveryTopic(NewMsg.topic) \/ IsConfigTopic(NewMsg.topic)
        /\ Utf8Decode(NewMsg.payload) # UnicodeDecodeError
        /\ IsJsonError(JsonLoads(Utf8Decode(NewMsg.payload))))
          => /\ queue' = queue
             /\ UNCHANGED <<batch, conn, db, work, pc, stop_event, drained>>]_vars

\* Malformed JSON was delivered on a discovery topic and on a config topic,
\* and nothing was put on any queue.
C8_Witness ==
    /\ Len(delivered) = 2
    /\ delivered[1].msg = Msg(TDiscStatus, "online")
    /\ delivered[2].msg = Msg(THaConfig, "online")
    /\ \A q \in QueueNames : queue[q] = <<>> /\ batch[q] = <<>>

\* The step put exactly one status item, the topic and the payload text.
EnqueuesOneStatus ==
    /\ queue'["status"] =
          Append(queue["status"],
                 [msg |-> nmsgs', v |-> <<NewMsg.topic, Utf8Decode(NewMsg.payload)>>])
    /\ \A q \in QueueNames \ {"status"} : queue'[q] = queue[q]

\* Every device_status row has the first topic segment of its message as
\* device_name and the payload text of its message as status.
StatusRowsAsDelivered ==
    \A k \in 1..Len(db.device_status) :
        LET r == db.device_status[k]
            m == delivered[r.msg].msg
        IN  /\ r.device_name = Split(m.topic, "/")[1]
            /\ r.status = Utf8Decode(m.payload)

\* C9 as stated: every message on a topic ending in /status puts exactly one
\* status item, and its device_status row has device_name the first topic
\* segment and status the payload text.
C9_StatusAlwaysEnqueued ==
    /\ [][(DeliverStep /\ IsStatusTopic(NewMsg.topic)) => EnqueuesOneStatus]_vars
    /\ []StatusRowsAsDelivered

\* C9 amended: the same for the messages on a topic ending in /status that
\* no earlier rule takes (the topic does not contain esphome/discover) and
\* whose payload is UTF-8 text.
C9_StatusEnqueuedUnlessDiscovery ==
    /\ [][(/\ DeliverStep
           /\ IsStatusTopic(NewMsg.topic)
           /\ ~IsDiscoveryTopic(NewMsg.topic)
           /\ Utf8Decode(NewMsg.payload) # UnicodeDecodeError)
             => EnqueuesOneStatus]_vars
    /\ []StatusRowsAsDelivered

\* A status message was put on the queue and its row is committed.
C9_Witness ==
    \E k \in 1..Len(db.device_status) :
        LET r == db.device_status[k]
        IN  /\ delivered[r.msg].msg = Msg(TStatus, "online")
            /\ r.device_name = <<"kitchen">>
            /\ r.status = "online"

\* C10: a message on homeassistant/<component>/<object>/config whose JSON
\* payload names the entity by "uniq_id" and its device by "dev" puts exactly
\* one item on the entity queue, with unique_id the payload's uniq_id and
\* component_type the second topic segment.
C10_ShortFormEntityEnqueued ==
    [][(/\ DeliverStep
        /\ Len(Split(NewMsg.topic, "/")) = 4
        /\ Split(NewMsg.topic, "/")[1] = <<"homeassistant">>
        /\ Split(NewMsg.topic, "/")[4] = <<"config">>
        /\ IsDict(JsonLoads(NewMsg.payload))
        /\ {"uniq_id", "dev"} \subseteq DOMAIN JsonLoads(NewMsg.payload))
          => /\ GainedOne("entity")
             /\ LET it == queue'["entity"][Len(queue'["entity"])]
                IN  /\ Get(it.v, "unique_id", None) = JsonLoads(NewMsg.payload)["uniq_id"]
                    /\ <<Get(it.v, "component_type", None)>> = Split(NewMsg.topic, "/")[2]]_vars

\* ------------------------------------------------------------------------
\* The positions of db_writer_thread inside a tick.
TickPcs ==
    {"setup", "drain_discovery", "drain_entity", "drain_status", "drain_state",
     "drain_command"} \cup FlushPcs

\* db_writer_thread has a next step at its position: the statement there
\* completes or one of the two except clauses takes over.
WriterCanStep ==
    /\ pc = "loop" => ENABLED (WriterExit \/ Connect \/ KeepConnection)
    /\ pc \in {"sleep", "cooldown"} => ENABLED Sleep
    /\ pc \in TickPcs \ FlushPcs => ENABLED (setup_database_tables \/ Drain)
    /\ pc \in FlushPcs
         => ENABLED (DatabaseError \/ UnexpectedError \/ WriteDiscovery
                     \/ WriteEntity \/ WriteStatus \/ WriteState \/ Commit)

\* C11: wherever db_writer_thread is -- connecting, writing, committing, in
\* the cooldown after a failure, with or without a connection -- on_mqtt_message
\* can take every message and complete its put without a step of the writer.
C11_DeliveryNeverWaits ==
    nmsgs < MaxMsgs => \A m \in Messages : ENABLED on_mqtt_message(m)

\* C11 witness: the database is down, the writer sits in its cooldown with an
\* item in a batch, and a later message has been put on the same queue.
C11_Witness ==
    /\ pc = "cooldown" /\ conn = None
    /\ \E q \in QueueNames : Len(batch[q]) = 1 /\ Len(queue[q]) = 1

\* C12: once stop_event is set db_writer_thread starts no new tick; a tick in
\* flight is not cut short, it goes on to its commit or to an error handler;
\* the writer ends only at the loop test, with the connection closed, and it
\* can always take its next step until it has ended; start() finishes only
\* after the writer has ended.
C12_CooperativeShutdown ==
    /\ [][(stop_event /\ pc = "loop") => pc' \in {"loop", "done"}]_vars
    /\ [][(stop_event /\ pc \in TickPcs)
            => pc' \in TickPcs \cup {"sleep", "cooldown"}]_vars
    /\ [][(pc # "done" /\ pc' = "done") => (pc = "loop" /\ stop_event)]_vars
    /\ [](pc = "done" => (conn = None /\ stop_event))
    /\ []((stop_event /\ pc # "done") => WriterCanStep)
    /\ [][pc = "done" => pc' = "done"]_vars
    /\ [](main_pc = "finished" => pc = "done")

\* C12 witness: start() has finished after a writer that had a connection and
\* committed rows has ended.
C12_Witness ==
    /\ main_pc = "finished" /\ pc = "done" /\ conn = None
    /\ db.fixed /\ Len(db.device_status) = 1

\* C13: db_writer_thread ends only when stop_event is set.  Every failure --
\* of connect, of setup_database_tables, of a write, of the commit, or a
\* Python exception -- leaves the writer in its cooldown, from where it can
\* go back to the loop test and, stop_event not set, start another tick.
C13_NoErrorEndsWriter ==
    /\ pc = "done" => stop_event
    /\ pc = "cooldown" => ENABLED (Sleep /\ pc' = "loop")
    /\ (pc = "loop" /\ ~stop_event)
          => ENABLED ((Connect \/ KeepConnection) /\ pc' \in TickPcs)
    /\ (pc \in FlushPcs /\ (PythonRaises \/ DbRejects))
          => ENABLED ((DatabaseError \/ UnexpectedError) /\ pc' = "cooldown")
    /\ pc # "done" => WriterCanStep

\* C13 witness: a tick raised a Python exception on an item that is still in
\* its batch, and the writer has started the next tick.
C13_Witness ==
    /\ pc = "drain_discovery" /\ ~stop_event
    /\ \E i \in 1..Len(batch["discovery"]) : DiscoveryRaises(batch["discovery"][i].v)
    /\ drained["discovery"] = batch["discovery"]

\* C14: a connection report with return code 0 -- the first and every later
\* one -- leaves the session subscribed to all five topic filters; a report
\* with another return code subscribes to nothing.
C14_SubscribeOnEveryConnect ==
    /\ [][(session = "down" /\ session' = "connected")
            => (connects' = connects + 1 /\ Filters \subseteq subscriptions')]_vars
    /\ [][(session = "down" /\ session' = "refused")
            => subscriptions' = subscriptions]_vars
    /\ [](session = "connected" => subscriptions = Filters)
    /\ [](session = "refused" => subscriptions = {})
    /\ [](Cardinality(Filters) = 5)

\* C14 witness: the session is connected for the second time, subscribed to
\* the five filters, and a message has arrived.
C14_Witness ==
    /\ connects = 2 /\ session = "connected"
    /\ subscriptions = Filters /\ nmsgs >= 1

\* A step of a drain loop that moves an item from its queue to its batch.
DrainGetStep ==
    /\ pc \in {DrainPc(i) : i \in 1..Len(DrainOrder)}
    /\ \E q \in QueueNames : Len(batch'[q]) = Len(batch[q]) + 1

\* C15: a drain loop removes no more items than its queue held when the loop
\* first tested it: it moves no item once the items of that depth are gone,
\* so an item put on the queue while the loop runs waits for the next tick.
C15_DrainBoundedByDepth ==
    [][DrainGetStep => drain_left # 0]_vars

\* C16: an exception in a tick that is no database error is handled as a
\* database error is: the connection is closed and dropped, what the tick
\* wrote is rolled back, and the next tick has to connect and run
\* setup_database_tables again.
C16_UnexpectedHandledAsDatabaseError ==
    [][(PythonRaises /\ pc' = "cooldown")
         => (conn' = None /\ work' = db /\ ~provisioned')]_vars

\* C17: a tick in which the connection cannot be opened still drains: what
\* was on the queues is moved behind what the batches already held, and the
\* batches lose nothing.
C17_OutageStillDrains ==
    [][(pc = "loop" /\ conn = None /\ pc' = "cooldown")
         => \A q \in QueueNames :
               queue'[q] = <<>> /\ batch'[q] = batch[q] \o queue[q]]_vars

\* C18: whenever db_writer_thread is at a write or at the commit, it holds a
\* connection on which setup_database_tables has completed -- after every
\* connect and whatever error ended the tick before.
C18_ProvisionedBeforeWrite ==
    pc \in FlushPcs => (conn # None /\ provisioned /\ work.fixed)

\* C18 witness: a tick wrote message 1 and lost it to a database error; the
\* writer has connected again and is about to write a status batch.
C18_Witness ==
    /\ pc = "write_status" /\ conn # None /\ provisioned
    /\ batch["status"] # <<>>
    /\ PutOn(1, "discovery")
    /\ ~InQueue(1) /\ ~InBatch(1) /\ ~Committed(1) /\ ~InFlight(1)

\* C19: a tick executes the CREATE TABLE / create_hypertable statements of a
\* device table only if no committed tick has provisioned that table before.
C19_ProvisionOnlyUnseen ==
    [][(pc = "write_state" /\ pc' = "commit")
         => ensured' \cap db.hypertables = {}]_vars

\* The table name is "esphome_" followed by the device name with each
\* character that is no letter or digit replaced by one that may stand in a
\* table name.
Sanitized(name, d) ==
    /\ Len(name) = Len(d) + 1
    /\ name[1] = "esphome_"
    /\ \A k \in 1..Len(d) :
          IF d[k] \in Punctuation THEN name[k + 1] \notin Punctuation
          ELSE name[k + 1] = d[k]

\* C20: the table a state reading is written to is named "esphome_" followed
\* by the sanitized device name: it holds letters, digits and underscores
\* only, whatever the device name.
C20_TableNameSanitized ==
    \A i \in 1..Len(batch["state"]) :
       LET topic == batch["state"][i].v[1]
       IN  Sanitized(StateRow(batch["state"][i]).table, Split(topic, "/")[1])

\* C21: with the database reachable and stop_event never set, every item
\* that on_mqtt_message has put on a queue is eventually in a committed row;
\* no item and no batch can make every later tick fail.  Stated here for the
\* four queues whose batches db_writer_thread writes.
C21_EveryItemCommitted ==
    \A i \in 1..MaxMsgs :
       (WasPut(i) /\ ~PutOn(i, "command")) ~> Committed(i)

====
